---- MODULE Spec2Model ----
(***************************************************************************)
(* Model of asterl1t.py: process_aster_dataset, the conversion of one      *)
(* ASTER L1T scene to a radiance or reflectance array.                     *)
(*                                                                         *)
(* Conventions of the model:                                               *)
(*  - a band label is the sequence of its characters, so that the          *)
(*    character-level str.replace('0', '') of the gain parsing is modelled *)
(*    by what it does;                                                     *)
(*  - a floating-point value is an integer in fixed units (coefficients in *)
(*    1e-6, irradiances in 1e-2) or the value NaN, and arithmetic          *)
(*    propagates NaN as IEEE arithmetic does;                              *)
(*  - arrays that the code mutates in place live in a heap of named cells, *)
(*    so that copying and aliasing are distinguishable.                    *)
(*  - the caller's destination is a floating-point array; the solar       *)
(*    direction of line 146 enters the result only as a factor common to   *)
(*    every band and is part of the reflectance term.                      *)
(***************************************************************************)
EXTENDS Integers, Sequences, FiniteSets, TLC

VARIABLES
    return_radiance,   \* argument: TRUE radiance, FALSE reflectance
    raster_list,       \* bands that have an ImageData sub-dataset in the scene
    metadata,          \* scene metadata: GAIN list, corners, CALENDARDATE
    warped,            \* per band, the pixels the reprojection primitive yields
    destination_arg,   \* value of the caller's destination array at the call
    heap,              \* contents of the arrays that are mutated in place
    aster_array,       \* the output array: sequence of band slots
    gain_dict,         \* gain per band label, built from the metadata
    ul, lr,            \* corner coordinates after [::-1]: <<lon, lat>>
    doy,               \* day of year
    todo,              \* bands the loop has not reached yet
    band_str, index, gain,   \* loop locals
    src_transform,     \* loop local: transform derived from the corners
    dst,               \* loop local: the heap cell the name dst is bound to
    pc,                \* position in process_aster_dataset
    fail_line,         \* source line that raised, 0 when none
    date_in, date_out  \* input and result of the day-of-year computation

vars == <<return_radiance, raster_list, metadata, warped, destination_arg,
          heap, aster_array, gain_dict, ul, lr, doy, todo, band_str, index,
          gain, src_transform, dst, pc, fail_line, date_in, date_out>>

\* ------------------------------------------------------------------ bounds
MaxPresent == 2        \* most bands in one scene
MaxGainEntries == 2    \* most GAIN items in the scene metadata
NPix == 1              \* pixels of the destination grid
MaxRaw == 2            \* largest reprojected digital number

\* A float is a tuple: <<n>> is the number n, <<>> is not-a-number, and a
\* longer tuple is a reflectance term (see ReflectancePixel).
NaN == <<>>
F(n) == <<n>>

\* no array: a name not bound yet, or an array no name refers to any more
NoArray == <<>>

\* ------------------------------------------------------------ module data
\* np.nan in the ucc matrix
NoCoefficient == -1

\* ucc, in units of 1e-6; columns in ucc_header order
ucc ==
    << <<676000, 1688000, 2250000, NoCoefficient>>,
       <<708000, 1415000, 1890000, NoCoefficient>>,
       <<423000,  862000, 1150000, NoCoefficient>>,
       <<423000,  862000, 1150000, NoCoefficient>>,
       <<108700,  217400,  290000, 290000>>,
       << 34800,   69600,   92500, 409000>>,
       << 31300,   62500,   83000, 390000>>,
       << 29900,   59700,   79500, 332000>>,
       << 20900,   41700,   55600, 245000>>,
       << 15900,   31800,   42400, 265000>>,
       <<NoCoefficient, 6822, NoCoefficient, NoCoefficient>>,
       <<NoCoefficient, 6780, NoCoefficient, NoCoefficient>>,
       <<NoCoefficient, 6590, NoCoefficient, NoCoefficient>>,
       <<NoCoefficient, 5693, NoCoefficient, NoCoefficient>>,
       <<NoCoefficient, 5225, NoCoefficient, NoCoefficient>> >>

ucc_header == <<"HGH", "NOR", "LG1", "LG2">>

band_index ==
    << <<"1">>, <<"2">>, <<"3", "B">>, <<"3", "N">>, <<"4">>, <<"5">>,
       <<"6">>, <<"7">>, <<"8">>, <<"9">>, <<"1", "0">>, <<"1", "1">>,
       <<"1", "2">>, <<"1", "3">>, <<"1", "4">> >>

Bands == {band_index[i] : i \in 1..Len(band_index)}

Range(s) == {s[i] : i \in 1..Len(s)}

\* variant: the indices stop at 9, the last slot of the reflectance array
index_dict_clipped ==
    [b \in Bands |->
        LET i == (CHOOSE j \in 1..Len(band_index) : band_index[j] = b) - 1
        IN  IF i > 9 THEN 9 ELSE i]

\* index_dict = dict(zip(band_index, np.arange(0, 15)))
index_dict ==
    [b \in Bands |-> (CHOOSE i \in 1..Len(band_index) : band_index[i] = b) - 1]

\* ucc_dict[band][gain]
ucc_dict ==
    [b \in Bands |->
        [g \in Range(ucc_header) |->
            LET c == ucc[index_dict[b] + 1]
                        [CHOOSE j \in 1..Len(ucc_header) : ucc_header[j] = g]
            IN  IF c = NoCoefficient THEN NaN ELSE F(c)]]

\* irradiance_dict, in units of 1e-2
irradiance_dict ==
    (<<"1">> :> 184899) @@ (<<"2">> :> 155574) @@ (<<"3", "N">> :> 111947) @@
    (<<"4">> :> 23125) @@ (<<"5">> :> 7981) @@ (<<"6">> :> 7499) @@
    (<<"7">> :> 6866) @@ (<<"8">> :> 5974) @@ (<<"9">> :> 5692)

\* band_index[:10]
FirstTen == {band_index[i] : i \in 1..10}

\* the bands whose gain line 148 sets
TIRBands == {<<"1", "0">>, <<"1", "1">>, <<"1", "2">>, <<"1", "3">>, <<"1", "4">>}

\* ------------------------------------------------------ numeric primitives
\* x - k and x * c on floats: NaN in, NaN out
Sub(x, k) == IF x = NaN THEN NaN ELSE F(x[1] - k)

\* variant: an undefined coefficient counts as zero
MulZeroCoefficient(x, c) ==
    IF x = NaN THEN NaN ELSE IF c = NaN THEN F(0) ELSE F(x[1] * c[1])

Mul(x, c) == IF x = NaN \/ c = NaN THEN NaN ELSE F(x[1] * c[1])

\* np.ma.masked_equal(a, v).filled(f)
MaskedEqualFilled(a, v, f) == [i \in DOMAIN a |-> IF a[i] = v THEN f ELSE a[i]]

\* variant: the zeros are masked after the offset and the scaling
RadianceMaskLast(a, c) ==
    MaskedEqualFilled([i \in DOMAIN a |-> Mul(Sub(a[i], 1), c)], F(0), NaN)

\* lines 190-191: dst = masked_equal(dst, 0).filled(nan); dst = (dst - 1) * c
Radiance(a, c) ==
    LET masked == MaskedEqualFilled(a, F(0), NaN)
    IN  [i \in DOMAIN a |-> Mul(Sub(masked[i], 1), c)]

\* line 201, one pixel: (pi * x * d**2) / (irradiance * sin(elevation)).
\* d is a function of the day of year; pi and the solar elevation are the
\* same for every band of the scene.  The quotient is kept as a term.
ReflectancePixel(x, irr, n) ==
    IF x = NaN THEN NaN ELSE <<x[1], n, irr>>

Reflectance(a, irr, n) == [i \in DOMAIN a |-> ReflectancePixel(a[i], irr, n)]

\* ------------------------------------------------------------ gain parsing
\* str.replace('0', '') on a sequence of characters
Replace0(s) == SelectSeq(s, LAMBDA ch : ch # "0")

\* line 147, one GAIN item "GAIN.n=<band>, <label>": replace('0', ''),
\* split('=')[1], split(', ').  The item is given by its two fields; the
\* labels of the model contain no character 0.
ParseGain(item) == <<Replace0(item.band), item.label>>

RECURSIVE DictOf(_)
\* dict(list of pairs): a later pair replaces an earlier one with its key
DictOf(pairs) ==
    IF pairs = <<>> THEN <<>>
    ELSE LET n == Len(pairs)
             rest == DictOf(SubSeq(pairs, 1, n - 1))
             k == pairs[n][1]
         IN  [x \in (DOMAIN rest) \cup {k} |->
                 IF x = k THEN pairs[n][2] ELSE rest[x]]

\* variant: the list of line 148 starts at band '11'
SetTIRGainsFrom11(gd) ==
    [x \in (DOMAIN gd) \cup (TIRBands \ {<<"1", "0">>}) |->
        IF x \in TIRBands THEN "NOR" ELSE gd[x]]

\* line 148: gain_dict[b] = 'NOR' for b in '10'..'14'
SetTIRGains(gd) ==
    [x \in (DOMAIN gd) \cup TIRBands |-> IF x \in TIRBands THEN "NOR" ELSE gd[x]]

\* lines 147-148
GainDict(items) ==
    SetTIRGains(DictOf([i \in 1..Len(items) |-> ParseGain(items[i])]))

\* -------------------------------------------------------------- day of year
RECURSIVE ParseInt(_)
\* int() of a sequence of decimal digits
ParseInt(ds) ==
    IF ds = <<>> THEN 0
    ELSE 10 * ParseInt(SubSeq(ds, 1, Len(ds) - 1)) + ds[Len(ds)]

\* np.uint8(s) for a decimal string s: the value modulo 2^8
Uint8(ds) == ParseInt(ds) % 256

\* calendar.isleap, as datetime uses it
IsLeap(y) == y % 4 = 0 /\ (y % 100 # 0 \/ y % 400 = 0)

DaysInMonth(y, m) ==
    IF m = 2 THEN (IF IsLeap(y) THEN 29 ELSE 28)
    ELSE IF m \in {4, 6, 9, 11} THEN 30 ELSE 31

RECURSIVE DaysBeforeMonth(_, _)
DaysBeforeMonth(y, m) ==
    IF m <= 1 THEN 0 ELSE DaysBeforeMonth(y, m - 1) + DaysInMonth(y, m - 1)

\* datetime.datetime(y, m, d) accepts MINYEAR..MAXYEAR and real days only
ValidDate(y, m, d) ==
    /\ y \in 1..9999
    /\ m \in 1..12
    /\ d \in 1..DaysInMonth(y, m)

\* datetime.datetime(y, m, d).timetuple().tm_yday
YDay(y, m, d) == DaysBeforeMonth(y, m) + d

\* line 154: yr, mo, day from the 8 digits of CALENDARDATE
DateFields(cd) ==
    <<Uint8(SubSeq(cd, 1, 4)), Uint8(SubSeq(cd, 5, 6)), Uint8(SubSeq(cd, 7, Len(cd)))>>

\* line 155 raises ValueError: datetime rejects the three parsed fields
DateRaises(cd) ==
    LET f == DateFields(cd) IN ~ValidDate(f[1], f[2], f[3])

\* line 155: the day of the year of the three parsed fields
DayOfYear(cd) ==
    LET f == DateFields(cd) IN YDay(f[1], f[2], f[3])

\* ------------------------------------------------------------- the transform
\* rasterio.transform.from_bounds(west, south, east, north, width, height):
\* pixel sizes (east - west) / width and (south - north) / height, origin
\* (west, north).  The sizes are kept unnormalised.
FromBounds(west, south, east, north) ==
    [a |-> east - west, e |-> south - north, c |-> west, f |-> north]

\* a transform that maps no area, or maps it mirrored
DegenerateTransform(t) == t.a <= 0 \/ t.e >= 0

\* variant: no copy is made, the name is bound to the same array
CopyAliased(cell) == cell

\* ndarray.copy(): the cell that holds the new array
Copy(cell) == "buf"

\* variant: the reflectance array gets one slot per irradiance constant
NSlotsNine(radiance) == IF radiance THEN 15 ELSE 9

\* number of slots on the band axis, lines 139-142
NSlots(radiance) == IF radiance THEN 15 ELSE 10

\* ------------------------------------------------------------------ inputs
\* bands from which the scenes of several bands are drawn
SceneBands == {<<"1">>, <<"3", "B">>, <<"9">>, <<"1", "0">>, <<"1", "4">>}

\* the sets of bands that have a raster in the scene
RasterLists ==
    {{b} : b \in Bands} \cup
    {S \in SUBSET SceneBands : Cardinality(S) \in 1..MaxPresent}

\* gain labels the metadata may carry: those of ucc_header and one other
GainLabels == Range(ucc_header) \cup {"OFF"}

\* the band field of a GAIN item: the band number on two characters
Field(b) == IF Len(b) = 1 THEN <<"0">> \o b ELSE b

GainItems(S) == [band : {Field(b) : b \in S}, label : GainLabels]

\* GAIN lists about the bands of S, at most one item per band
GainLists(S) ==
    UNION {{g \in [1..n -> GainItems(S)] :
               \A i, j \in 1..n : i # j => g[i].band # g[j].band} :
           n \in 0..MaxGainEntries}

\* UPPERLEFT and LOWERRIGHT as <<lat, lon>>: a proper pair, and twice the
\* same point
CornerPairs ==
    {[UPPERLEFT |-> <<2, 1>>, LOWERRIGHT |-> <<1, 2>>],
     [UPPERLEFT |-> <<2, 2>>, LOWERRIGHT |-> <<2, 2>>]}

\* CALENDARDATE: 2017-06-15, 2048-06-15, or <<>> when the item is missing
CalendarDates ==
    {<<2, 0, 1, 7, 0, 6, 1, 5>>, <<2, 0, 4, 8, 0, 6, 1, 5>>, <<>>}

\* values of the caller's array
FillValues == {F(0), NaN}

Pixels == 1..NPix

\* what the reprojection primitive can write
RawArrays == [Pixels -> {F(v) : v \in 0..MaxRaw}]

NoTransform == [a |-> 0, e |-> 0, c |-> 0, f |-> 0]

NoMetadata == [GAIN |-> <<>>, UPPERLEFT |-> <<0, 0>>, LOWERRIGHT |-> <<0, 0>>,
               CALENDARDATE |-> <<>>]

\* ------------------------------------------------------------------- state
Init ==
    /\ return_radiance \in BOOLEAN
    /\ raster_list \in RasterLists
    /\ destination_arg \in [Pixels -> FillValues]
    /\ heap = [cell \in {"destination", "buf", "conv"} |->
                  IF cell = "destination" THEN destination_arg ELSE NoArray]
    /\ metadata = NoMetadata
    /\ warped = [b \in Bands |-> NoArray]
    /\ aster_array = <<>>
    /\ gain_dict = <<>>
    /\ ul = <<0, 0>>
    /\ lr = <<0, 0>>
    /\ doy = 0
    /\ todo = {}
    /\ band_str = <<>>
    /\ index = -1
    /\ gain = ""
    /\ src_transform = NoTransform
    /\ dst = ""
    /\ pc = "open"
    /\ fail_line = 0
    /\ date_in = <<>>
    /\ date_out = 0

Raise(line) ==
    /\ pc' = "failed"
    /\ fail_line' = line

\* lines 136-142: open the scene, allocate the output array
Open ==
    /\ pc = "open"
    /\ aster_array' = [i \in 1..NSlots(return_radiance) |-> heap["destination"]]
    /\ pc' = "metadata"
    /\ UNCHANGED <<return_radiance, raster_list, metadata, warped,
                   destination_arg, heap, gain_dict, ul, lr, doy, todo,
                   band_str, index, gain, src_transform, dst, fail_line,
                   date_in, date_out>>

\* lines 146-159: scene metadata, day of year, list of rasters
ExtractMetadata ==
    /\ pc = "metadata"
    /\ \E g \in GainLists(raster_list), c \in CornerPairs, cd \in CalendarDates :
          /\ metadata' = [GAIN |-> g, UPPERLEFT |-> c.UPPERLEFT,
                          LOWERRIGHT |-> c.LOWERRIGHT, CALENDARDATE |-> cd]
          /\ IF cd = <<>>
             THEN /\ Raise(153)
                  /\ UNCHANGED <<gain_dict, ul, lr, doy, todo>>
             ELSE IF DateRaises(cd)
             THEN /\ Raise(155)
                  /\ UNCHANGED <<gain_dict, ul, lr, doy, todo>>
             ELSE /\ gain_dict' = GainDict(g)
                  /\ ul' = <<c.UPPERLEFT[2], c.UPPERLEFT[1]>>
                  /\ lr' = <<c.LOWERRIGHT[2], c.LOWERRIGHT[1]>>
                  /\ doy' = DayOfYear(cd)
                  /\ todo' = raster_list
                  /\ pc' = "loop"
                  /\ UNCHANGED fail_line
    /\ UNCHANGED <<return_radiance, raster_list, warped, destination_arg, heap,
                   aster_array, band_str, index, gain, src_transform, dst,
                   date_in, date_out>>

\* lines 161-165: the next raster, its index and its gain
NextBand ==
    /\ pc = "loop"
    /\ \E b \in todo :
          /\ todo' = todo \ {b}
          /\ band_str' = b
          /\ index' = index_dict[b]
          /\ IF b \in DOMAIN gain_dict
             THEN /\ gain' = gain_dict[b]
                  /\ pc' = "read"
                  /\ UNCHANGED fail_line
             ELSE /\ Raise(165)
                  /\ UNCHANGED gain
    /\ UNCHANGED <<return_radiance, raster_list, metadata, warped,
                   destination_arg, heap, aster_array, gain_dict, ul, lr, doy,
                   src_transform, dst, date_in, date_out>>

\* lines 169-178: read the band, derive its transform, copy the destination
ReadBand ==
    /\ pc = "read"
    /\ src_transform' = FromBounds(ul[1], lr[2], lr[1], ul[2])
    /\ dst' = Copy("destination")
    /\ heap' = [heap EXCEPT ![Copy("destination")] = heap["destination"]]
    /\ pc' = "reproject"
    /\ UNCHANGED <<return_radiance, raster_list, metadata, warped,
                   destination_arg, aster_array, gain_dict, ul, lr, doy, todo,
                   band_str, index, gain, fail_line, date_in, date_out>>

\* lines 180-188: the reprojection primitive fills the array dst names; on
\* a degenerate source transform it may raise instead
Reproject ==
    /\ pc = "reproject"
    /\ \/ \E w \in RawArrays :
             /\ heap' = [heap EXCEPT ![dst] = w]
             /\ warped' = [warped EXCEPT ![band_str] = w]
             /\ pc' = "convert"
             /\ UNCHANGED fail_line
       \/ /\ DegenerateTransform(src_transform)
          /\ Raise(180)
          /\ UNCHANGED <<heap, warped>>
    /\ UNCHANGED <<return_radiance, raster_list, metadata, destination_arg,
                   aster_array, gain_dict, ul, lr, doy, todo, band_str, index,
                   gain, src_transform, dst, date_in, date_out>>

\* lines 190-191: mask the zeros, convert to radiance; dst names the result
Convert ==
    /\ pc = "convert"
    /\ IF gain \in DOMAIN ucc_dict[band_str]
       THEN /\ heap' = [heap EXCEPT
                           !["conv"] = Radiance(heap[dst], ucc_dict[band_str][gain]),
                           !["buf"] = IF dst = "buf" THEN NoArray ELSE @]
            /\ dst' = "conv"
            /\ pc' = "write"
            /\ UNCHANGED fail_line
       ELSE /\ Raise(191)
            /\ UNCHANGED <<heap, dst>>
    /\ UNCHANGED <<return_radiance, raster_list, metadata, warped,
                   destination_arg, aster_array, gain_dict, ul, lr, doy, todo,
                   band_str, index, gain, src_transform, date_in, date_out>>

\* aster_array[:, :, i] = a
SetSlot(arr, i, a) == [arr EXCEPT ![i + 1] = a]

\* lines 193-203: store the band in its slot, or leave the slot alone
WriteBand ==
    /\ pc = "write"
    /\ LET done == /\ pc' = "loop"
                   /\ band_str' = <<>>
                   /\ index' = -1
                   /\ gain' = ""
                   /\ src_transform' = NoTransform
                   /\ dst' = ""
                   /\ heap' = [heap EXCEPT !["conv"] = NoArray]
                   /\ UNCHANGED fail_line
           stop(line) == /\ Raise(line)
                         /\ UNCHANGED <<aster_array, band_str, index, gain,
                                        src_transform, dst, heap>>
       IN  IF return_radiance
           THEN IF index < Len(aster_array)
                THEN /\ aster_array' = SetSlot(aster_array, index, heap[dst])
                     /\ done
                ELSE stop(195)
           ELSE IF band_str \in FirstTen
           THEN IF band_str \notin DOMAIN irradiance_dict
                THEN stop(201)
                ELSE IF index < Len(aster_array)
                THEN /\ aster_array' =
                            SetSlot(aster_array, index,
                                    Reflectance(heap[dst],
                                                irradiance_dict[band_str], doy))
                     /\ done
                ELSE stop(203)
           ELSE /\ UNCHANGED aster_array
                /\ done
    /\ UNCHANGED <<return_radiance, raster_list, metadata, warped,
                   destination_arg, gain_dict, ul, lr, doy, todo, date_in,
                   date_out>>

\* line 205: every raster has been processed
Return ==
    /\ pc = "loop"
    /\ todo = {}
    /\ pc' = "returned"
    /\ UNCHANGED <<return_radiance, raster_list, metadata, warped,
                   destination_arg, heap, aster_array, gain_dict, ul, lr, doy,
                   todo, band_str, index, gain, src_transform, dst, fail_line,
                   date_in, date_out>>

Next ==
    \/ Open
    \/ ExtractMetadata
    \/ NextBand
    \/ ReadBand
    \/ Reproject
    \/ Convert
    \/ WriteBand
    \/ Return

Spec == Init /\ [][Next]_vars

\* ------------------------------------------- the day of year, on its own
\* the calendar dates of the years 1990 to 2050, as CALENDARDATE writes them
DateYears == 1990..2050

FormatDate(y, m, d) ==
    <<y \div 1000, (y \div 100) % 10, (y \div 10) % 10, y % 10,
      m \div 10, m % 10, d \div 10, d % 10>>

\* the 8-digit strings of the valid calendar dates of those years
DateStrings ==
    {FormatDate(t[1], t[2], t[3]) :
        t \in {u \in DateYears \X (1..12) \X (1..31) :
                  ValidDate(u[1], u[2], u[3])}}

InitDate ==
    /\ date_in \in DateStrings
    /\ date_out = 0
    /\ pc = "date"
    /\ fail_line = 0
    /\ return_radiance = FALSE
    /\ raster_list = {}
    /\ destination_arg = [p \in Pixels |-> NaN]
    /\ heap = [cell \in {"destination", "buf", "conv"} |-> NoArray]
    /\ metadata = NoMetadata
    /\ warped = [b \in Bands |-> NoArray]
    /\ aster_array = <<>>
    /\ gain_dict = <<>>
    /\ ul = <<0, 0>>
    /\ lr = <<0, 0>>
    /\ doy = 0
    /\ todo = {}
    /\ band_str = <<>>
    /\ index = -1
    /\ gain = ""
    /\ src_transform = NoTransform
    /\ dst = ""

\* lines 153-155 applied to date_in
ComputeDoy ==
    /\ pc = "date"
    /\ IF DateRaises(date_in)
       THEN /\ Raise(155)
            /\ UNCHANGED date_out
       ELSE /\ date_out' = DayOfYear(date_in)
            /\ pc' = "date_done"
            /\ UNCHANGED fail_line
    /\ UNCHANGED <<return_radiance, raster_list, metadata, warped,
                   destination_arg, heap, aster_array, gain_dict, ul, lr, doy,
                   todo, band_str, index, gain, src_transform, dst, date_in>>

NextDate == ComputeDoy

SpecDate == InitDate /\ [][NextDate]_vars

\* ----------------------------------------------------------------- claims
InLoopBody == pc \in {"read", "reproject", "convert", "write"}

\* the loop has run the whole body for band b
Processed(b) == warped[b] # NoArray /\ b \notin todo /\ b # band_str

AllNaN == [p \in Pixels |-> NaN]

NoIrradianceBands == Bands \ DOMAIN irradiance_dict

\* C2: in reflectance mode the mode-dependent step (lines 197-203) of a band
\* without irradiance constant raises nothing, and the slot at the band's
\* index, when the array has one, holds the caller's fill value on return.
C2_SilentSkip ==
    ~return_radiance =>
        /\ ~(pc = "failed" /\ fail_line \in 197..203
                /\ band_str \in NoIrradianceBands)
        /\ pc = "returned" =>
              \A b \in raster_list \cap NoIrradianceBands :
                 index_dict[b] < Len(aster_array) =>
                    aster_array[index_dict[b] + 1] = destination_arg

\* band b is present with a gain whose coefficient the table leaves undefined
UndefinedCoefficient(b) ==
    /\ b \in raster_list
    /\ b \in DOMAIN gain_dict
    /\ gain_dict[b] \in Range(ucc_header)
    /\ ucc_dict[b][gain_dict[b]] = NaN

\* C3 (as stated): a present band whose coefficient is undefined leaves its
\* slot at the fill value when the array is returned.
C3_SlotKeepsFill ==
    pc = "returned" =>
        \A b \in raster_list :
           UndefinedCoefficient(b) =>
              aster_array[index_dict[b] + 1] = destination_arg

\* C3 (amended): an undefined coefficient raises nothing at the lookup; the
\* array is returned only after every present band went through the loop
\* body; and the slot of such a band, when the band is stored (radiance mode,
\* or a band with an irradiance constant), is not-a-number at every pixel.
C3_SlotIsNaN ==
    /\ pc = "failed" /\ fail_line = 191 => gain \notin Range(ucc_header)
    /\ pc = "returned" =>
          /\ \A b \in raster_list : Processed(b)
          /\ \A b \in raster_list :
                UndefinedCoefficient(b)
                  /\ (return_radiance \/ b \in DOMAIN irradiance_dict) =>
                    aster_array[index_dict[b] + 1] = AllNaN

\* returned with a band of undefined coefficient, a second band, and a fill
\* value that is a number
C3_Witness ==
    /\ pc = "returned"
    /\ Cardinality(raster_list) >= 2
    /\ \E b \in raster_list :
          /\ UndefinedCoefficient(b)
          /\ aster_array[index_dict[b] + 1] = AllNaN
    /\ \A p \in Pixels : destination_arg[p] # NaN

\* no band has been read, reprojected or stored
NoBandTouched ==
    /\ \A b \in Bands : warped[b] = NoArray
    /\ ~InLoopBody
    /\ \A i \in 1..Len(aster_array) : aster_array[i] = destination_arg

\* C4: an invocation that fails fails in the metadata extraction (lines
\* 146-159) with no band touched; one that returns has processed every
\* present band.
C4_TwoEndings ==
    /\ pc = "failed" /\ fail_line # 0 =>
          fail_line \in 146..159 /\ todo = {} /\ NoBandTouched
    /\ pc = "returned" => \A b \in raster_list : Processed(b)

\* C5: after the conversion of a band with a defined coefficient c, each
\* pixel is NaN where the reprojected value is 0 and (v - 1) * c elsewhere;
\* a reprojected 0 is NaN whatever the coefficient.
C5_PixelLaw ==
    pc = "write" =>
        \A p \in Pixels :
           LET v == warped[band_str][p]
               c == ucc_dict[band_str][gain]
           IN  /\ v = F(0) => heap[dst][p] = NaN
               /\ v # F(0) /\ c # NaN => heap[dst][p] = F((v[1] - 1) * c[1])

\* a reprojected 1 became the radiance 0 under a defined coefficient
C5_Witness ==
    /\ pc = "write"
    /\ ucc_dict[band_str][gain] # NaN
    /\ \E p \in Pixels : warped[band_str][p] = F(1) /\ heap[dst][p] = F(0)

\* C6: a band of '10'..'14' is looked up with gain NOR, the coefficient is
\* defined, and neither the gain lookup nor the coefficient lookup raises.
C6_TIRGainIsNormal ==
    band_str \in TIRBands =>
        /\ InLoopBody => gain = "NOR" /\ ucc_dict[band_str][gain] # NaN
        /\ pc = "failed" => fail_line \notin {165, 191}

\* band '10' was converted although the metadata reports LG2 for it
C6_Witness ==
    /\ pc = "write"
    /\ band_str = <<"1", "0">>
    /\ \E i \in 1..Len(metadata.GAIN) :
          metadata.GAIN[i] = [band |-> <<"1", "0">>, label |-> "LG2"]

\* C7: for a valid calendar date the day of year is computed, equals the
\* ordinal day of the date in its four-digit year, and lies in 1..366.
C7_OrdinalDay ==
    /\ pc # "failed"
    /\ pc = "date_done" =>
          /\ date_out = YDay(ParseInt(SubSeq(date_in, 1, 4)),
                             ParseInt(SubSeq(date_in, 5, 6)),
                             ParseInt(SubSeq(date_in, 7, 8)))
          /\ date_out \in 1..366

\* the upper-left corner is not strictly north and west of the lower-right
DegenerateCorners ==
    ~(/\ metadata.UPPERLEFT[1] > metadata.LOWERRIGHT[1]
      /\ metadata.UPPERLEFT[2] < metadata.LOWERRIGHT[2])

\* C8: with degenerate corners no band is read, reprojected or stored, and
\* the invocation does not return an array.
C8_DegenerateAborts ==
    metadata # NoMetadata /\ DegenerateCorners =>
        /\ pc \notin {"reproject", "convert", "write", "returned"}
        /\ \A b \in Bands : warped[b] = NoArray

\* what the loop body stores for band b, from the band's own data only
ExpectedSlot(b) ==
    LET rad == Radiance(warped[b], ucc_dict[b][gain_dict[b]])
    IN  IF return_radiance THEN rad
        ELSE Reflectance(rad, irradiance_dict[b], doy)

\* band b is stored: always in radiance mode, the first ten in reflectance
Stored(b) == return_radiance \/ b \in FirstTen

ExpectedArray ==
    [i \in 1..Len(aster_array) |->
        IF \E b \in raster_list : index_dict[b] = i - 1 /\ Stored(b)
        THEN ExpectedSlot(CHOOSE b \in raster_list :
                             index_dict[b] = i - 1 /\ Stored(b))
        ELSE destination_arg]

\* a step changes no slot but the one at the index of the band in hand
OneSlotPerStep ==
    \A i \in DOMAIN aster_array :
       aster_array'[i] # aster_array[i] =>
          pc = "write" /\ i = index_dict[band_str] + 1

\* C9: a step of the loop changes at most the slot at the index of its band;
\* and whatever the order of the bands, the returned array holds at the
\* index of each stored band what that band alone determines, and the
\* fill value in every other slot.
C9_OrderIndependent ==
    /\ [][OneSlotPerStep]_vars
    /\ [](pc = "returned" => aster_array = ExpectedArray)

\* two bands were stored, each in its own slot
C9_Witness ==
    /\ pc = "returned"
    /\ \E b, c \in raster_list :
          /\ b # c
          /\ Stored(b) /\ Stored(c)
          /\ aster_array[index_dict[b] + 1] # aster_array[index_dict[c] + 1]
          /\ aster_array[index_dict[b] + 1] # destination_arg

\* C10: the caller's array keeps its value at the call; each band is
\* reprojected into an array of its own that starts as a copy of it.
C10_DestinationUntouched ==
    /\ pc \notin {"date", "date_done"} => heap["destination"] = destination_arg
    /\ pc \in {"reproject", "convert"} => dst # "destination"
    /\ pc = "reproject" => heap[dst] = destination_arg

\* the second band is about to be reprojected, after a first band whose
\* reprojected pixels differ from the caller's
C10_Witness ==
    /\ pc = "reproject"
    /\ \E b \in raster_list : Processed(b) /\ warped[b] # destination_arg
    /\ heap[dst] = destination_arg

====
